---- MODULE Spec2Model ----
(***************************************************************************)
(* bed: a bulk command line text editor (src/main.go).                     *)
(*                                                                         *)
(* Run compiles a pattern, scans the given paths for matches, writes the   *)
(* matches as "#bed:begin <json header>\n<data>\n#bed:end\n" blocks to a   *)
(* temporary file, lets an editor change that file, parses the blocks back *)
(* and splices every block's data into its file at the recorded offset.    *)
(*                                                                         *)
(* Text (files, match data, the temporary file) is a sequence of symbols.  *)
(* A symbol is a one-byte character, or one of the two markers, or one     *)
(* lexical token of the JSON header; the markers and tokens share no       *)
(* character with the one-byte symbols used for file and match bytes, so   *)
(* matching on symbols is matching on bytes.                               *)
(***************************************************************************)
EXTENDS Integers, Sequences, FiniteSets, TLC

VARIABLES
    pc,          \* position of Run / ApplyMatches
    err,         \* the error Run returns ("" while there is none)
    fs,          \* the file system: path -> content
    orig,        \* history: the file system when the run started
    pattern,     \* Run's pattern argument
    argPaths,    \* Run's path arguments
    dryRun,      \* the -dry-run flag
    scanIdx,     \* FindAllIndexPaths: number of paths scanned so far
    matches,     \* the matches found by the scan
    blob,        \* content of the temporary match file
    edit,        \* history: what the editor did to the temporary file
    newMatches,  \* the matches parsed back from the temporary file
    input,       \* history: the records ApplyMatches was called with
    paths,       \* groupMatchesByPath: the paths, in map iteration order
    pathMatches, \* groupMatchesByPath: the matches of each path
    pathIdx,     \* ApplyMatches: index i of the path being applied
    data,        \* applyPathMatches: the in-memory content of the path
    matchIdx,    \* applyPathMatches: index i of the next match to apply
    ioLog,       \* history: file reads and writes of ApplyMatches, in order
    spliceLog    \* history: <<path, pos, len, length of data>> at every splice

vars == <<pc, err, fs, orig, pattern, argPaths, dryRun, scanIdx, matches, blob,
          edit, newMatches, input, paths, pathMatches, pathIdx, data, matchIdx,
          ioLog, spliceLog>>

-----------------------------------------------------------------------------
(* Bounds of the model.                                                    *)

MaxFileLen == 3
MaxMatches == 2
MaxCodecData == 3

-----------------------------------------------------------------------------
(* Symbols.                                                                *)

NL == "\n"
BEGIN == "#bed:begin "
END == "#bed:end"

AllPaths == {"f", "g"}

\* bytes of file content, and bytes an editor types into a block's body
FileBytes == {"a", "X"}
EditData == {<<>>, <<"Y", "Y">>}

Range(s) == {s[k] : k \in 1..Len(s)}

RECURSIVE SeqsUpTo(_, _)
SeqsUpTo(S, n) ==
    IF n = 0 THEN {<<>>}
    ELSE LET shorter == SeqsUpTo(S, n - 1)
         IN  shorter \cup {Append(s, x) : s \in {t \in shorter : Len(t) = n - 1}, x \in S}

RECURSIVE ByteLen(_)
ByteLen(s) == IF s = <<>> THEN 0 ELSE Len(Head(s)) + ByteLen(Tail(s))

Match(path, pos, len, d) == [Path |-> path, Pos |-> pos, Len |-> len, Data |-> d]

-----------------------------------------------------------------------------
(* json.Marshal / json.Unmarshal of matchJSON, on JSON tokens.             *)

Digits == <<"0", "1", "2", "3", "4", "5", "6", "7", "8", "9">>
IsDigit(t) == \E d \in 1..10 : Digits[d] = t
DigitVal(t) == (CHOOSE d \in 1..10 : Digits[d] = t) - 1

RECURSIVE Itoa(_)
Itoa(n) == IF n < 10 THEN <<Digits[n + 1]>> ELSE Append(Itoa(n \div 10), Digits[(n % 10) + 1])

RECURSIVE Atoi(_)
Atoi(ds) == IF Len(ds) = 1 THEN DigitVal(ds[1])
            ELSE 10 * Atoi(SubSeq(ds, 1, Len(ds) - 1)) + DigitVal(ds[Len(ds)])

Quote(s) == "\"" \o s \o "\""
IsQuoted(t) == \E p \in AllPaths : Quote(p) = t
Unquote(t) == CHOOSE p \in AllPaths : Quote(p) = t

KeyPath == "\"path\":"
KeyPos == "\"pos\":"
KeyLen == "\"len\":"

MarshalJSON(m) ==
    <<"{", KeyPath, Quote(m.Path), ",", KeyPos>> \o Itoa(m.Pos)
        \o <<",", KeyLen>> \o Itoa(m.Len) \o <<"}">>

\* the zero value of matchJSON, which json.Unmarshal fills in
ZeroHdr == [Path |-> "", Pos |-> 0, Len |-> 0]
JSONError == [ok |-> FALSE, hdr |-> ZeroHdr]

\* last index of the run of digits that starts at i
RECURSIVE NumEnd(_, _)
NumEnd(toks, i) ==
    IF i + 1 <= Len(toks) /\ IsDigit(toks[i + 1]) THEN NumEnd(toks, i + 1) ELSE i

\* the members of a JSON object from token i on: key value {, key value} }
\* A key sets its field; a field no key names keeps its zero value.
RECURSIVE UnmarshalMembers(_, _, _)
UnmarshalMembers(toks, i, hdr) ==
    IF i + 1 > Len(toks) THEN JSONError
    ELSE LET key == toks[i]
             v == i + 1
             after(j, h) ==
                 IF j > Len(toks) THEN JSONError
                 ELSE IF toks[j] = "}" THEN
                          IF j = Len(toks) THEN [ok |-> TRUE, hdr |-> h] ELSE JSONError
                 ELSE IF toks[j] = "," THEN UnmarshalMembers(toks, j + 1, h)
                 ELSE JSONError
         IN  IF key = KeyPath THEN
                 IF IsQuoted(toks[v])
                 THEN after(v + 1, [hdr EXCEPT !.Path = Unquote(toks[v])])
                 ELSE JSONError
             ELSE IF key \in {KeyPos, KeyLen} THEN
                 IF IsDigit(toks[v])
                 THEN LET e == NumEnd(toks, v)
                          n == Atoi(SubSeq(toks, v, e))
                      IN  after(e + 1, IF key = KeyPos THEN [hdr EXCEPT !.Pos = n]
                                                        ELSE [hdr EXCEPT !.Len = n])
                 ELSE JSONError
             ELSE JSONError

UnmarshalJSON(toks) ==
    IF Len(toks) < 2 \/ toks[1] # "{" THEN JSONError
    ELSE IF Len(toks) = 2 THEN
             IF toks[2] = "}" THEN [ok |-> TRUE, hdr |-> ZeroHdr] ELSE JSONError
    ELSE UnmarshalMembers(toks, 2, ZeroHdr)

-----------------------------------------------------------------------------
(* Match.MarshalText, writeTempMatchFile.                                  *)

MarshalText(m) ==
    <<BEGIN>> \o MarshalJSON(m) \o <<NL>> \o m.Data \o <<NL>> \o <<END, NL>>

RECURSIVE TempFileText(_)
TempFileText(ms) ==
    IF ms = <<>> THEN <<>> ELSE MarshalText(Head(ms)) \o <<NL>> \o TempFileText(Tail(ms))

-----------------------------------------------------------------------------
(* matchTextRegex: (?s)#bed:begin ([^\n]+)\n(.*?)\n#bed:end                *)

NoBlock == [found |-> FALSE, start |-> 0, end |-> 0, hdr |-> <<>>, body |-> <<>>]

\* index of the first newline after s; 0 if there is none
FirstNL(text, s) ==
    LET C == {h \in (s + 1)..Len(text) : text[h] = NL}
    IN  IF C = {} THEN 0 ELSE CHOOSE h \in C : \A k \in C : h <= k

\* (.*?)\n#bed:end : the first newline at or after index b that #bed:end follows
FirstTerminator(text, b) ==
    LET C == {e \in b..(Len(text) - 1) : text[e] = NL /\ text[e + 1] = END}
    IN  IF C = {} THEN 0 ELSE CHOOSE e \in C : \A k \in C : e <= k

\* the match of the regex that starts at index s, if any
BlockAt(text, s) ==
    IF text[s] # BEGIN THEN NoBlock
    ELSE LET h == FirstNL(text, s)
         IN  IF h = 0 \/ h = s + 1 THEN NoBlock
             ELSE LET e == FirstTerminator(text, h + 1)
                  IN  IF e = 0 THEN NoBlock
                      ELSE [found |-> TRUE, start |-> s, end |-> e + 1,
                            hdr |-> SubSeq(text, s + 1, h - 1),
                            body |-> SubSeq(text, h + 1, e - 1)]

\* the leftmost match at or after index from
FindBlock(text, from) ==
    LET C == {s \in from..Len(text) : BlockAt(text, s).found}
    IN  IF C = {} THEN NoBlock ELSE BlockAt(text, CHOOSE s \in C : \A k \in C : s <= k)

\* matchTextRegex.FindAll(data, -1): successive non-overlapping matches
RECURSIVE FindAllBlocks(_, _)
FindAllBlocks(text, from) ==
    LET b == FindBlock(text, from)
    IN  IF b.found THEN <<b>> \o FindAllBlocks(text, b.end + 1) ELSE <<>>

-----------------------------------------------------------------------------
(* Match.UnmarshalText, ParseMatches.                                      *)

UnmarshalText(buf) ==
    LET a == FindBlock(buf, 1)
    IN  IF ~a.found THEN [ok |-> FALSE, m |-> Match("", 0, 0, <<>>)]
        ELSE LET j == UnmarshalJSON(a.hdr)
             IN  IF ~j.ok THEN [ok |-> FALSE, m |-> Match("", 0, 0, <<>>)]
                 ELSE [ok |-> TRUE, m |-> Match(j.hdr.Path, j.hdr.Pos, j.hdr.Len, a.body)]

ParseMatches(text) ==
    LET bs == FindAllBlocks(text, 1)
        us == [k \in 1..Len(bs) |-> UnmarshalText(SubSeq(text, bs[k].start, bs[k].end))]
    IN  IF \E k \in 1..Len(bs) : ~us[k].ok
        THEN [ok |-> FALSE, matches |-> <<>>]
        ELSE [ok |-> TRUE, matches |-> [k \in 1..Len(bs) |-> us[k].m]]

-----------------------------------------------------------------------------
(* regexp.Compile, re.FindAllIndex / re.FindAll.                            *)
(* A pattern is a literal byte string (possibly empty) or c* for a byte c; *)
(* BadPattern is a pattern that does not compile.  Offsets are 0-based:    *)
(* the byte at offset k of content d is d[k + 1].                          *)

Lit(s) == [kind |-> "lit", lit |-> s]
Star(c) == [kind |-> "star", lit |-> <<c>>]
BadPattern == [kind |-> "bad", lit |-> <<>>]
Patterns == {Lit(<<"X">>), Lit(<<>>), Lit(<<"a", "X">>), Star("X")}

\* faulty variant of Compiles: the error of regexp.Compile is ignored
CompilesAnything(p) == TRUE

Compiles(p) == p.kind # "bad"

NoMatch == [found |-> FALSE, start |-> 0, end |-> 0]

\* length of the run of byte c in d from offset s on
RECURSIVE RunLen(_, _, _)
RunLen(d, c, s) == IF s < Len(d) /\ d[s + 1] = c THEN 1 + RunLen(d, c, s + 1) ELSE 0

\* the leftmost match of re in d that starts at or after offset pos
MatchFrom(re, d, pos) ==
    IF re.kind = "star"
    THEN [found |-> TRUE, start |-> pos, end |-> pos + RunLen(d, re.lit[1], pos)]
    ELSE LET n == Len(re.lit)
             C == {s \in pos..(Len(d) - n) : SubSeq(d, s + 1, s + n) = re.lit}
         IN  IF C = {} THEN NoMatch
             ELSE LET s == CHOOSE x \in C : \A y \in C : x <= y
                  IN  [found |-> TRUE, start |-> s, end |-> s + n]

\* regexp's allMatches loop: an empty match right after the previous match
\* is dropped, and the search moves one byte on after an empty match
RECURSIVE AllMatches(_, _, _, _)
AllMatches(re, d, pos, prevMatchEnd) ==
    IF pos > Len(d) THEN <<>>
    ELSE LET m == MatchFrom(re, d, pos)
         IN  IF ~m.found THEN <<>>
             ELSE LET empty == (m.end = pos)
                      accept == ~(empty /\ m.start = prevMatchEnd)
                      next == IF empty THEN pos + 1 ELSE m.end
                      rest == AllMatches(re, d, next, m.end)
                  IN  IF accept THEN <<m>> \o rest ELSE rest

FindAllIndex(re, d) == AllMatches(re, d, 0, -1)

\* FindAllIndexPath without the read: the matches of re in content d of path
FindAllIndexPath(re, path, d) ==
    LET a == FindAllIndex(re, d)
    IN  [k \in 1..Len(a) |->
            Match(path, a[k].start, a[k].end - a[k].start,
                  SubSeq(d, a[k].start + 1, a[k].end))]

-----------------------------------------------------------------------------
(* groupMatchesByPath, applyPathMatches.                                   *)

\* faulty variant of MatchesOf: the path of a match is not looked at
MatchesOfAnyPath(ms, p) == ms

MatchesOf(ms, p) == SelectSeq(ms, LAMBDA m : m.Path = p)
PathsOf(ms) == {ms[k].Path : k \in 1..Len(ms)}

\* the orders in which ranging over the map can yield the paths of S
Orders(S) == {o \in [1..Cardinality(S) -> S] : \A p \in S : \E k \in DOMAIN o : o[k] = p}

\* start, end := m.Pos, m.Pos+m.Len; data[:start:start] and data[end:] are taken
\* (Len is never negative here, so start <= end)
InBounds(d, m) == 0 <= m.Pos /\ m.Pos + m.Len <= Len(d)

\* faulty variant of Splice: the suffix starts at start, not at end, so the old
\* span stays in place after the new data
SpliceInsertOnly(d, m) == SubSeq(d, 1, m.Pos) \o m.Data \o SubSeq(d, m.Pos + 1, Len(d))

\* data = append(prefix, append(mid, suffix...)...)
Splice(d, m) == SubSeq(d, 1, m.Pos) \o m.Data \o SubSeq(d, m.Pos + m.Len + 1, Len(d))

\* faulty variants of Moves: only a match further on is moved; every later
\* match is moved
MovesStrict(mi, mj) == mj.Pos > mi.Pos
MovesAlways(mi, mj) == TRUE

\* whether match i moves the later match j
Moves(mi, mj) == mj.Pos >= mi.Pos

\* faulty variant of Shift: the later matches move by the size of the new data
ShiftByDataLen(ms, i) ==
    [j \in 1..Len(ms) |->
        IF j > i /\ Moves(ms[i], ms[j])
        THEN [ms[j] EXCEPT !.Pos = ms[j].Pos + Len(ms[i].Data)]
        ELSE ms[j]]

\* the inner loop: apply the difference in data size to the later matches
Shift(ms, i) ==
    [j \in 1..Len(ms) |->
        IF j > i /\ Moves(ms[i], ms[j])
        THEN [ms[j] EXCEPT !.Pos = ms[j].Pos + (Len(ms[i].Data) - ms[i].Len)]
        ELSE ms[j]]

\* faulty variant of PartialWrites: the file is not truncated before the write,
\* so a failed write leaves new bytes followed by old ones
PartialWritesInPlace(old, new) ==
    {SubSeq(new, 1, n) \o SubSeq(old, n + 1, Len(old)) : n \in 0..Len(new)}

\* what a failed ioutil.WriteFile can leave in the file: the old content (the
\* open failed) or the new content cut short (truncated, then a failed write)
PartialWrites(old, new) == {old} \cup {SubSeq(new, 1, n) : n \in 0..(Len(new) - 1)}

\* applyPathMatches on content d alone: the loop over ms from match i on.
\* The result is the content to write, or "panic".
RECURSIVE ApplyAlone(_, _, _)
ApplyAlone(d, ms, i) ==
    IF i > Len(ms) THEN d
    ELSE IF ~InBounds(d, ms[i]) THEN "panic"
    ELSE ApplyAlone(Splice(d, ms[i]), Shift(ms, i), i + 1)

\* the pos, len and buffer length of every splice of that loop
RECURSIVE SplicesAlone(_, _, _)
SplicesAlone(d, ms, i) ==
    IF i > Len(ms) THEN <<>>
    ELSE <<<<ms[i].Path, ms[i].Pos, ms[i].Len, Len(d)>>>>
         \o IF InBounds(d, ms[i]) THEN SplicesAlone(Splice(d, ms[i]), Shift(ms, i), i + 1)
            ELSE <<>>

-----------------------------------------------------------------------------
(* The editor: an external program that rewrites the temporary file.       *)
(* It leaves the file as it is, or makes one edit to the blocks.           *)

Block(hdr, body) == <<BEGIN>> \o hdr \o <<NL>> \o body \o <<NL, END, NL, NL>>

RECURSIVE Render(_)
Render(bs) == IF bs = <<>> THEN <<>> ELSE Block(Head(bs).hdr, Head(bs).body) \o Render(Tail(bs))

BlocksOf(ms) == [k \in 1..Len(ms) |-> [hdr |-> MarshalJSON(ms[k]), body |-> ms[k].Data]]

Without(s, k) == SubSeq(s, 1, k - 1) \o SubSeq(s, k + 1, Len(s))
Swapped(s, k) == [j \in 1..Len(s) |-> IF j = k THEN s[k + 1] ELSE IF j = k + 1 THEN s[k] ELSE s[j]]

\* ways to break the header of match m
BrokenHeaders(m) ==
    { [kind |-> "header: unterminated", hdr |-> Without(MarshalJSON(m), Len(MarshalJSON(m)))],
      [kind |-> "header: no pos",
       hdr |-> <<"{", KeyPath, Quote(m.Path), ",", KeyLen>> \o Itoa(m.Len) \o <<"}">>],
      [kind |-> "header: no path",
       hdr |-> <<"{", KeyPos>> \o Itoa(m.Pos) \o <<",", KeyLen>> \o Itoa(m.Len) \o <<"}">>],
      [kind |-> "header: empty", hdr |-> <<>>] }

Edits(ms) ==
    LET bs == BlocksOf(ms)
        N == 1..Len(ms)
    IN  {[kind |-> "body", text |-> Render([bs EXCEPT ![k].body = d])] : k \in N, d \in EditData}
        \cup {[kind |-> "delete", text |-> Render(Without(bs, k))] : k \in N}
        \cup {[kind |-> "swap", text |-> Render(Swapped(bs, k))] : k \in 1..(Len(ms) - 1)}
        \cup UNION {{[kind |-> b.kind, text |-> Render([bs EXCEPT ![k].hdr = b.hdr])]
                        : b \in BrokenHeaders(ms[k])} : k \in N}

-----------------------------------------------------------------------------
(* Run, step by step.                                                      *)

Fail(e) == pc' = "failed" /\ err' = e

\* ioutil.ReadFile(path): a file that exists may still be unreadable, a path
\* that names no file is never read
ReadOutcomes(path) == IF path \in DOMAIN fs THEN BOOLEAN ELSE {FALSE}

\* re, err := regexp.Compile(pattern)
Compile ==
    /\ pc = "compile"
    /\ IF Compiles(pattern) THEN pc' = "scan" /\ err' = err ELSE Fail("compile")
    /\ UNCHANGED <<fs, orig, pattern, argPaths, dryRun, scanIdx, matches, blob, edit,
                   newMatches, input, paths, pathMatches, pathIdx, data, matchIdx,
                   ioLog, spliceLog>>

\* one iteration of FindAllIndexPaths: the read of the path succeeds or fails
ScanPath ==
    /\ pc = "scan"
    /\ LET path == argPaths[scanIdx + 1]
       IN  \E readOK \in ReadOutcomes(path) :
               IF readOK
               THEN /\ matches' = matches \o FindAllIndexPath(pattern, path, fs[path])
                    /\ scanIdx' = scanIdx + 1
                    /\ pc' = IF scanIdx + 1 = Len(argPaths) THEN "output" ELSE "scan"
                    /\ err' = err
               ELSE /\ Fail("read")
                    /\ UNCHANGED <<matches, scanIdx>>
    /\ UNCHANGED <<fs, orig, pattern, argPaths, dryRun, blob, edit, newMatches, input,
                   paths, pathMatches, pathIdx, data, matchIdx, ioLog, spliceLog>>

\* if *dryRun: print the matches and return
DryRun ==
    /\ pc = "output"
    /\ dryRun
    /\ pc' = "done"
    /\ UNCHANGED <<err, fs, orig, pattern, argPaths, dryRun, scanIdx, matches, blob, edit,
                   newMatches, input, paths, pathMatches, pathIdx, data, matchIdx,
                   ioLog, spliceLog>>

\* tmpPath, err := writeTempMatchFile(matches)
WriteTemp ==
    /\ pc = "output"
    /\ ~dryRun
    /\ \E writeOK \in BOOLEAN :
           IF writeOK
           THEN blob' = TempFileText(matches) /\ pc' = "editor" /\ err' = err
           ELSE Fail("tempfile") /\ blob' = blob
    /\ UNCHANGED <<fs, orig, pattern, argPaths, dryRun, scanIdx, matches, edit,
                   newMatches, input, paths, pathMatches, pathIdx, data, matchIdx,
                   ioLog, spliceLog>>

\* exec.Command(cmd, append(args, tmpPath)...).Run()
Editor ==
    /\ pc = "editor"
    /\ \/ Fail("editor") /\ UNCHANGED <<blob, edit>>
       \/ pc' = "parse" /\ edit' = "none" /\ UNCHANGED <<blob, err>>
       \/ \E e \in Edits(matches) :
              pc' = "parse" /\ edit' = e.kind /\ blob' = e.text /\ err' = err
    /\ UNCHANGED <<fs, orig, pattern, argPaths, dryRun, scanIdx, matches,
                   newMatches, input, paths, pathMatches, pathIdx, data, matchIdx,
                   ioLog, spliceLog>>

\* newMatches, err = ParseMatches(buf)
Parse ==
    /\ pc = "parse"
    /\ LET r == ParseMatches(blob)
       IN  IF r.ok
           THEN newMatches' = r.matches /\ input' = r.matches /\ pc' = "apply" /\ err' = err
           ELSE Fail("malformed header") /\ UNCHANGED <<newMatches, input>>
    /\ UNCHANGED <<fs, orig, pattern, argPaths, dryRun, scanIdx, matches, blob, edit,
                   paths, pathMatches, pathIdx, data, matchIdx, ioLog, spliceLog>>

-----------------------------------------------------------------------------
(* ApplyMatches, step by step.                                             *)

\* paths, pathMatches := groupMatchesByPath(matches)
Group ==
    /\ pc = "apply"
    /\ \E o \in Orders(PathsOf(newMatches)) :
           /\ paths' = o
           /\ pathMatches' = [k \in 1..Len(o) |-> MatchesOf(newMatches, o[k])]
           /\ pc' = IF Len(o) = 0 THEN "done" ELSE "read"
    /\ pathIdx' = 1
    /\ UNCHANGED <<err, fs, orig, pattern, argPaths, dryRun, scanIdx, matches, blob, edit,
                   newMatches, input, data, matchIdx, ioLog, spliceLog>>

\* applyPathMatches: data, err := ioutil.ReadFile(path)
ReadPath ==
    /\ pc = "read"
    /\ LET path == paths[pathIdx]
       IN  \E readOK \in ReadOutcomes(path) :
               IF readOK
               THEN /\ data' = fs[path]
                    /\ matchIdx' = 1
                    /\ ioLog' = Append(ioLog, <<"read", path>>)
                    /\ pc' = "splice"
                    /\ err' = err
               ELSE /\ Fail("read")
                    /\ ioLog' = Append(ioLog, <<"read failed", path>>)
                    /\ UNCHANGED <<data, matchIdx>>
    /\ UNCHANGED <<fs, orig, pattern, argPaths, dryRun, scanIdx, matches, blob, edit,
                   newMatches, input, paths, pathMatches, pathIdx, spliceLog>>

\* applyPathMatches: one iteration of "for i, m := range matches".
\* A slice expression out of range panics.
SpliceMatch ==
    /\ pc = "splice"
    /\ LET ms == pathMatches[pathIdx]
           m == ms[matchIdx]
       IN  /\ spliceLog' = Append(spliceLog, <<m.Path, m.Pos, m.Len, Len(data)>>)
           /\ IF InBounds(data, m)
              THEN /\ data' = Splice(data, m)
                   /\ pathMatches' = [pathMatches EXCEPT ![pathIdx] = Shift(ms, matchIdx)]
                   /\ matchIdx' = matchIdx + 1
                   /\ pc' = IF matchIdx = Len(ms) THEN "write" ELSE "splice"
                   /\ err' = err
              ELSE /\ Fail("panic")
                   /\ UNCHANGED <<data, pathMatches, matchIdx>>
    /\ UNCHANGED <<fs, orig, pattern, argPaths, dryRun, scanIdx, matches, blob, edit,
                   newMatches, input, paths, pathIdx, ioLog>>

\* applyPathMatches: os.Stat(path), then ioutil.WriteFile(path, data, fi.Mode());
\* back in ApplyMatches, the next path or the end
WritePath ==
    /\ pc = "write"
    /\ LET path == paths[pathIdx]
       IN  \/ /\ Fail("stat")
              /\ ioLog' = Append(ioLog, <<"stat failed", path>>)
              /\ UNCHANGED <<fs, pathIdx>>
           \/ /\ \E c \in PartialWrites(fs[path], data) : fs' = [fs EXCEPT ![path] = c]
              /\ Fail("write")
              /\ ioLog' = Append(ioLog, <<"write failed", path>>)
              /\ UNCHANGED pathIdx
           \/ /\ fs' = [fs EXCEPT ![path] = data]
              /\ ioLog' = Append(ioLog, <<"write", path>>)
              /\ pathIdx' = pathIdx + 1
              /\ pc' = IF pathIdx = Len(paths) THEN "done" ELSE "read"
              /\ err' = err
    /\ UNCHANGED <<orig, pattern, argPaths, dryRun, scanIdx, matches, blob, edit,
                   newMatches, input, paths, pathMatches, data, matchIdx, spliceLog>>

Apply == Group \/ ReadPath \/ SpliceMatch \/ WritePath

-----------------------------------------------------------------------------
(* Initial states and specifications.                                      *)

NoFiles == [p \in AllPaths |-> <<>>]

\* ApplyMatches has not started
ApplyIdle ==
    /\ paths = <<>>
    /\ pathMatches = <<>>
    /\ pathIdx = 0
    /\ data = <<>>
    /\ matchIdx = 0
    /\ ioLog = <<>>
    /\ spliceLog = <<>>

(* The whole of Run, from regexp.Compile on. *)

RunContents == {<<>>, <<"X">>, <<"a", "X", "X">>}
RunArgs == {<<"f">>, <<"f", "g">>, <<"g", "f">>}

InitRun ==
    /\ pc = "compile"
    /\ err = ""
    /\ fs \in [AllPaths -> RunContents]
    /\ orig = fs
    /\ pattern \in Patterns \cup {BadPattern}
    /\ argPaths \in RunArgs
    /\ dryRun \in BOOLEAN
    /\ scanIdx = 0
    /\ matches = <<>>
    /\ blob = <<>>
    /\ edit = ""
    /\ newMatches = <<>>
    /\ input = <<>>
    /\ ApplyIdle

NextRun == Compile \/ ScanPath \/ DryRun \/ WriteTemp \/ Editor \/ Parse \/ Apply

SpecRun == InitRun /\ [][NextRun]_vars

(* The serializer alone: matches with any data, written, edited, parsed. *)

CodecBytes == {"a", NL, END}
CodecHeaders == {<<"f", 0>>, <<"g", 12>>}
CodecRecords ==
    {Match(h[1], h[2], ByteLen(d), d) : h \in CodecHeaders, d \in SeqsUpTo(CodecBytes, MaxCodecData)}

InitCodec ==
    /\ pc = "output"
    /\ err = ""
    /\ fs = NoFiles
    /\ orig = fs
    /\ pattern = Lit(<<>>)
    /\ argPaths = <<>>
    /\ dryRun = FALSE
    /\ scanIdx = 0
    /\ matches \in SeqsUpTo(CodecRecords, 2)
    /\ blob = <<>>
    /\ edit = ""
    /\ newMatches = <<>>
    /\ input = <<>>
    /\ ApplyIdle

NextCodec == WriteTemp \/ Editor \/ Parse

SpecCodec == InitCodec /\ [][NextCodec]_vars

(* The patcher alone: ApplyMatches called with records for the files. *)

Contents == SeqsUpTo(FileBytes, MaxFileLen)
PlainContent(n) == [k \in 1..n |-> IF k % 2 = 1 THEN "a" ELSE "X"]

Spans(n) == {s \in (0..n) \X (0..n) : s[1] + s[2] <= n}

\* lists of at most k records for path whose spans lie in a file of n bytes,
\* start at or after offset from, and each end before the next starts
RECURSIVE AscLists(_, _, _, _)
AscLists(path, n, from, k) ==
    {<<>>} \cup
    IF k = 0 THEN {}
    ELSE UNION {{<<Match(path, s[1], s[2], d)>> \o rest :
                    d \in EditData, rest \in AscLists(path, n, s[1] + s[2], k - 1)}
                : s \in {t \in Spans(n) : t[1] >= from}}

RECURSIVE Interleavings(_, _)
Interleavings(a, b) ==
    IF a = <<>> THEN {b}
    ELSE IF b = <<>> THEN {a}
    ELSE {<<Head(a)>> \o r : r \in Interleavings(Tail(a), b)}
         \cup {<<Head(b)>> \o r : r \in Interleavings(a, Tail(b))}

\* at most one record for file g, one that makes the file longer
GrowLists(files) ==
    {<<>>} \cup {<<Match("g", s[1], s[2], <<"Y", "Y">>)>> : s \in Spans(Len(files["g"]))}

\* records of two files, each file's in ascending order, interleaved: at most
\* MaxMatches of f and at most one of g
AscInputs(files) ==
    UNION {UNION {Interleavings(a, b) : b \in GrowLists(files)}
              : a \in AscLists("f", Len(files["f"]), 0, MaxMatches)}

\* any records of file f whose data is what the file holds at their span
NoopInputs(files) ==
    SeqsUpTo({Match("f", s[1], s[2], SubSeq(files["f"], s[1] + 1, s[1] + s[2]))
                 : s \in Spans(Len(files["f"]))}, MaxMatches)

\* what the matcher found in file f, some blocks deleted, the others in any
\* order, their bodies kept or edited
RECURSIVE Arrangements(_, _)
Arrangements(ms, k) ==
    {<<>>} \cup
    IF k = 0 THEN {}
    ELSE UNION {{<<m>> \o rest : m \in {ms[j]} \cup {[ms[j] EXCEPT !.Data = d] : d \in EditData},
                                 rest \in Arrangements(Without(ms, j), k - 1)}
                : j \in 1..Len(ms)}

MatchedInputs(files) ==
    UNION {Arrangements(FindAllIndexPath(re, "f", files["f"]), MaxMatches) : re \in Patterns}

InitApply ==
    /\ pc = "apply"
    /\ err = ""
    /\ \/ /\ fs \in {[f |-> PlainContent(n), g |-> PlainContent(1)] : n \in 0..MaxFileLen}
          /\ input \in AscInputs(fs)
       \/ /\ fs \in {[f |-> PlainContent(n), g |-> <<>>] : n \in 0..MaxFileLen}
          /\ input \in NoopInputs(fs)
       \/ /\ fs \in {[f |-> c, g |-> <<>>] : c \in Contents}
          /\ input \in MatchedInputs(fs)
    /\ orig = fs
    /\ pattern = Lit(<<>>)
    /\ argPaths = <<>>
    /\ dryRun = FALSE
    /\ scanIdx = 0
    /\ matches = <<>>
    /\ blob = <<>>
    /\ edit = ""
    /\ newMatches = input
    /\ ApplyIdle

NextApply == Apply

SpecApply == InitApply /\ [][NextApply]_vars

-----------------------------------------------------------------------------
(* Properties of the patcher, checked under SpecApply.                     *)

\* the records of path p among ms, in their order in ms
RECURSIVE RecordsFor(_, _)
RecordsFor(ms, p) ==
    IF ms = <<>> THEN <<>>
    ELSE IF Head(ms).Path = p THEN <<Head(ms)>> \o RecordsFor(Tail(ms), p)
    ELSE RecordsFor(Tail(ms), p)

\* content d from offset from on, with the span of every record of ms (spans
\* in ascending order) replaced by the record's data
RECURSIVE Replaced(_, _, _)
Replaced(d, ms, from) ==
    IF ms = <<>> THEN SubSeq(d, from + 1, Len(d))
    ELSE SubSeq(d, from + 1, Head(ms).Pos) \o Head(ms).Data
             \o Replaced(d, Tail(ms), Head(ms).Pos + Head(ms).Len)

\* the growth of the file caused by the first n records of ms
RECURSIVE SumDelta(_, _)
SumDelta(ms, n) ==
    IF n = 0 THEN 0 ELSE SumDelta(ms, n - 1) + Len(ms[n].Data) - ms[n].Len

WithinFile(ms, d) == \A k \in 1..Len(ms) : ms[k].Pos + ms[k].Len <= Len(d)
Ascending(ms) == \A k \in 1..(Len(ms) - 1) : ms[k].Pos + ms[k].Len <= ms[k + 1].Pos
StrictlyAscending(ms) ==
    Ascending(ms) /\ \A k \in 1..(Len(ms) - 1) : ms[k].Pos < ms[k + 1].Pos

Written(p) == \E k \in 1..Len(ioLog) : ioLog[k] = <<"write", p>>
PathSplices(p) == SelectSeq(spliceLog, LAMBDA e : e[1] = p)

\* C1 (offset-shift correctness): when the records given for a file have
\* ascending, non-overlapping spans inside the file, every record is spliced at
\* its original pos plus the sum of length(data) - len of the records before it,
\* and the file, once written, is the original content with every span replaced
\* by its record's data.
C1_OffsetShift ==
    \A p \in AllPaths :
        LET g == RecordsFor(input, p)
            sp == PathSplices(p)
        IN  (Ascending(g) /\ WithinFile(g, orig[p])) =>
                /\ \A k \in 1..Len(sp) : sp[k][2] = g[k].Pos + SumDelta(g, k - 1)
                /\ Written(p) => fs[p] = Replaced(orig[p], g, 0)

\* two ascending records, the first replacing one byte by two, the second an
\* insertion at the very offset where the first span ended, applied and written
C1_Witness ==
    /\ pc = "done"
    /\ \E p \in AllPaths :
           LET g == RecordsFor(input, p)
           IN  /\ Len(g) = 2
               /\ Ascending(g)
               /\ g[1].Len = 1 /\ Len(g[1].Data) = 2
               /\ g[2].Len = 0 /\ g[2].Pos = g[1].Pos + g[1].Len /\ g[2].Data # <<>>
               /\ Len(PathSplices(p)) = 2
               /\ PathSplices(p)[2][2] = g[2].Pos + 1
               /\ Written(p)
               /\ fs[p] = Replaced(orig[p], g, 0)

\* C4 (no-op patch): when the data of every record given for a file is what
\* the file holds at the record's span, ApplyMatches shifts no record's pos,
\* the content in memory stays the original, and the file is written back
\* byte for byte as it was.
IsNoop(ms, d) ==
    \A k \in 1..Len(ms) :
        /\ ms[k].Pos + ms[k].Len <= Len(d)
        /\ ms[k].Data = SubSeq(d, ms[k].Pos + 1, ms[k].Pos + ms[k].Len)

C4_NoopPatch ==
    \A p \in AllPaths :
        LET g == RecordsFor(input, p)
        IN  IsNoop(g, orig[p]) =>
                /\ \A k \in 1..Len(paths) :
                       paths[k] = p =>
                           /\ Len(pathMatches[k]) = Len(g)
                           /\ \A j \in 1..Len(g) : pathMatches[k][j].Pos = g[j].Pos
                /\ (pc \in {"splice", "write"} /\ paths[pathIdx] = p) => data = orig[p]
                /\ Written(p) => fs[p] = orig[p]

\* two records that overlap, neither of them empty, applied and written
C4_Witness ==
    /\ pc = "done"
    /\ LET g == RecordsFor(input, "f")
       IN  /\ Len(g) = 2
           /\ IsNoop(g, orig["f"])
           /\ \A k \in 1..2 : g[k].Len > 0
           /\ g[2].Pos < g[1].Pos /\ g[1].Pos < g[2].Pos + g[2].Len
           /\ Written("f")
           /\ fs["f"] = orig["f"]

\* C5 (multi-file independence): grouping keeps each path's records in their
\* input order, every splice of a path happens where it would if ApplyMatches
\* had been given that path's records only, and a file that is written holds
\* what ApplyMatches would have written given that path's records only.
SamePosless(a, b) ==
    /\ Len(a) = Len(b)
    /\ \A k \in 1..Len(a) : [a[k] EXCEPT !.Pos = 0] = [b[k] EXCEPT !.Pos = 0]

IsPrefix(a, b) == Len(a) <= Len(b) /\ a = SubSeq(b, 1, Len(a))

C5_MultiFile ==
    /\ \A k \in 1..Len(paths) : SamePosless(pathMatches[k], RecordsFor(input, paths[k]))
    /\ \A j, k \in 1..Len(paths) : paths[j] = paths[k] => j = k
    /\ \A p \in AllPaths :
           LET g == RecordsFor(input, p)
           IN  /\ IsPrefix(PathSplices(p), SplicesAlone(orig[p], g, 1))
               /\ Written(p) => fs[p] = ApplyAlone(orig[p], g, 1)

\* records of two files given as f, g, f; both files changed in length, the
\* first record of f moving the second, and both files written
C5_Witness ==
    /\ pc = "done"
    /\ Len(input) = 3
    /\ input[1].Path = "f" /\ input[2].Path = "g" /\ input[3].Path = "f"
    /\ Len(input[1].Data) # input[1].Len
    /\ Len(input[2].Data) # input[2].Len
    /\ input[2].Pos > input[3].Pos
    /\ Written("f") /\ Written("g")
    /\ fs["f"] # orig["f"] /\ fs["g"] # orig["g"]

\* the path whose applyPathMatches call failed, and what that call would
\* have written
IOFailed == pc = "failed" /\ err \in {"read", "stat", "write"}
FullContent(p) == ApplyAlone(orig[p], RecordsFor(input, p), 1)
Mentions(p) == \E k \in 1..Len(ioLog) : ioLog[k][2] = p

\* what C6 says of the paths before and after the failing one: the last thing
\* ApplyMatches did is the failed call, no later path was read or written, and
\* every earlier path holds its rewritten content
AroundFailure ==
    /\ ioLog # <<>>
    /\ ioLog[Len(ioLog)] \in {<<"read failed", paths[pathIdx]>>,
                              <<"stat failed", paths[pathIdx]>>,
                              <<"write failed", paths[pathIdx]>>}
    /\ \A k \in 1..Len(paths) :
           /\ k > pathIdx => ~Mentions(paths[k]) /\ fs[paths[k]] = orig[paths[k]]
           /\ k < pathIdx => Written(paths[k]) /\ fs[paths[k]] = FullContent(paths[k])

\* C6 as claimed (fail-partway apply): when the read, stat or write of a path
\* fails, the failing path is not left with partial content (it holds its old
\* content, or the whole new content), no later path is read or written, and
\* every earlier path keeps its rewritten content.
C6_AsClaimed ==
    IOFailed =>
        /\ fs[paths[pathIdx]] \in {orig[paths[pathIdx]], FullContent(paths[pathIdx])}
        /\ AroundFailure

\* C6 as amended: when the read or stat of a path fails, the failing path is
\* left unchanged; when its write fails, the failing path holds its old content
\* or a leading part of the fully spliced content; no later path is read or
\* written, and every earlier path keeps its rewritten content.
C6_FailPartway ==
    IOFailed =>
        /\ err \in {"read", "stat"} => fs[paths[pathIdx]] = orig[paths[pathIdx]]
        /\ err = "write" =>
               \/ fs[paths[pathIdx]] = orig[paths[pathIdx]]
               \/ IsPrefix(fs[paths[pathIdx]], FullContent(paths[pathIdx]))
        /\ AroundFailure

\* the write of the second path failed and cut the file short, after the first
\* path was rewritten
C6_Witness ==
    /\ IOFailed
    /\ err = "write"
    /\ pathIdx = 2
    /\ fs[paths[1]] # orig[paths[1]]
    /\ fs[paths[2]] # orig[paths[2]]
    /\ fs[paths[2]] # FullContent(paths[2])
    /\ fs[paths[2]] # <<>>

\* C8 (span in bounds): when the records given for a file are records the
\* matcher found in the file's content, headers untouched, bodies kept or
\* edited, some blocks deleted, order kept, every splice takes a span inside
\* the content in memory: 0 <= pos and pos + len <= its length.
RECURSIVE EditedSubseq(_, _)
EditedSubseq(ms, found) ==
    IF ms = <<>> THEN TRUE
    ELSE IF found = <<>> THEN FALSE
    ELSE \/ /\ Head(ms).Path = Head(found).Path
            /\ Head(ms).Pos = Head(found).Pos
            /\ Head(ms).Len = Head(found).Len
            /\ EditedSubseq(Tail(ms), Tail(found))
         \/ EditedSubseq(ms, Tail(found))

FromMatcher(ms, p, d) == \E re \in Patterns : EditedSubseq(ms, FindAllIndexPath(re, p, d))

SplicesInBounds(p) ==
    /\ \A k \in 1..Len(spliceLog) :
           spliceLog[k][1] = p =>
               /\ 0 <= spliceLog[k][2]
               /\ spliceLog[k][2] + spliceLog[k][3] <= spliceLog[k][4]
    /\ ~(pc = "failed" /\ err = "panic" /\ paths[pathIdx] = p)

C8_SpanInBounds ==
    \A p \in AllPaths :
        SplicesInBounds(p) \/ ~FromMatcher(RecordsFor(input, p), p, orig[p])

\* the matcher found three matches of X*, empty and not; the second block was
\* deleted, the body of the first filled, and the two left were applied
C8_Witness ==
    /\ pc = "done"
    /\ LET g == RecordsFor(input, "f")
           found == FindAllIndexPath(Star("X"), "f", orig["f"])
       IN  /\ Len(found) = 3
           /\ Len(g) = 2
           /\ EditedSubseq(g, found)
           /\ g[1].Pos = found[1].Pos /\ g[2].Pos = found[3].Pos
           /\ Len(g[1].Data) > g[1].Len
           /\ Len(spliceLog) = 2
           /\ Written("f")

\* C10 (order independence): when the records given for a file, put in order of
\* pos, have strictly increasing pos and non-overlapping spans inside the file,
\* then whatever order they are given in, the file that is written is the
\* original content with every span replaced by its record's data.
RECURSIVE SortByPos(_)
SortByPos(ms) ==
    IF ms = <<>> THEN <<>>
    ELSE LET k == CHOOSE i \in 1..Len(ms) :
                      \A j \in 1..Len(ms) : ms[i].Pos < ms[j].Pos \/ (ms[i].Pos = ms[j].Pos /\ i <= j)
         IN  <<ms[k]>> \o SortByPos(SubSeq(ms, 1, k - 1) \o SubSeq(ms, k + 1, Len(ms)))

C10_OrderIndependent ==
    \A p \in AllPaths :
        LET s == SortByPos(RecordsFor(input, p))
        IN  (StrictlyAscending(s) /\ WithinFile(s, orig[p])) =>
                /\ Written(p) => fs[p] = Replaced(orig[p], s, 0)
                /\ ~(pc = "failed" /\ err = "panic" /\ paths[pathIdx] = p)

\* two records given with the later span first, the earlier span replaced by
\* longer data, the later one deleted, applied and written
C10_Witness ==
    /\ pc = "done"
    /\ LET g == RecordsFor(input, "f")
       IN  /\ Len(g) = 2
           /\ StrictlyAscending(SortByPos(g))
           /\ g[2].Pos < g[1].Pos
           /\ Len(g[2].Data) > g[2].Len
           /\ g[1].Len > 0 /\ g[1].Data = <<>>
           /\ Written("f")
           /\ fs["f"] = Replaced(orig["f"], SortByPos(g), 0)

-----------------------------------------------------------------------------
(* Properties of the serializer, checked under SpecCodec.                  *)

\* a line of d after its first that is exactly #bed:end
HasTerminatorLine(d) ==
    \E i \in 1..(Len(d) - 1) :
        d[i] = NL /\ d[i + 1] = END /\ (i + 1 = Len(d) \/ d[i + 2] = NL)

\* the first newline at or after index b followed by a line that is exactly
\* #bed:end; 0 if there is none
FirstTerminatorLine(text, b) ==
    LET C == {e \in b..(Len(text) - 1) :
                 text[e] = NL /\ text[e + 1] = END /\ (e + 1 = Len(text) \/ text[e + 2] = NL)}
    IN  IF C = {} THEN 0 ELSE CHOOSE e \in C : \A k \in C : e <= k

\* C2 (round-trip identity): matches written by writeTempMatchFile and parsed
\* back unedited are the matches written, in the same order, whatever their
\* data holds: nothing, newlines, text that looks like a marker.  Stated here
\* for data of which no line after the first is itself the terminator line
\* #bed:end, the one text the format cannot carry.
C2_RoundTrip ==
    (edit = "none" /\ pc \in {"apply", "failed"}
        /\ \A k \in 1..Len(matches) : ~HasTerminatorLine(matches[k].Data))
    => (pc = "apply" /\ newMatches = matches)

\* C3 (malformed header rejection): when a block of the text has a header that
\* is not valid JSON or lacks path, pos or len, ParseMatches fails and returns
\* no records.  Stated here for a header that is not empty and for blocks whose
\* bodies hold no marker.
BrokenKinds == {"header: unterminated", "header: no pos", "header: no path"}

C3_MalformedRejected ==
    (edit \in BrokenKinds /\ pc \in {"apply", "failed"}
        /\ \A k \in 1..Len(matches) : END \notin Range(matches[k].Data))
    => (pc = "failed" /\ err = "malformed header" /\ newMatches = <<>>)

\* C9 (body termination): the body of a decoded block ends only at a line that
\* is exactly #bed:end, so the decoded data is the text from the header line's
\* newline up to the first such line, less the newline before it.
C9_BodyTermination ==
    pc = "apply" =>
        LET bs == FindAllBlocks(blob, 1)
        IN  \A k \in 1..Len(bs) :
                LET h == FirstNL(blob, bs[k].start)
                    e == FirstTerminatorLine(blob, h + 1)
                IN  /\ e # 0
                    /\ newMatches[k].Data = SubSeq(blob, h + 1, e - 1)

-----------------------------------------------------------------------------
(* Properties of the whole run, checked under SpecRun.                     *)

WriteAttempted == \E k \in 1..Len(ioLog) : ioLog[k][1] \in {"write", "write failed"}

RECURSIVE ScanOf(_, _)
ScanOf(re, ps) ==
    IF ps = <<>> THEN <<>>
    ELSE FindAllIndexPath(re, Head(ps), orig[Head(ps)]) \o ScanOf(re, Tail(ps))

\* C7 (scan before write): no file is written before the pattern has compiled,
\* every path given has been read by the scan, and the edited temporary file
\* has been decoded without error; and when a read of the scan fails, the run
\* ends with that error and every file is as it was.
C7_ScanBeforeWrite ==
    /\ (WriteAttempted \/ fs # orig) =>
           /\ pattern # BadPattern
           /\ scanIdx = Len(argPaths)
           /\ matches = ScanOf(pattern, argPaths)
           /\ ~dryRun
           /\ edit # ""
           /\ ParseMatches(blob).ok
           /\ input = ParseMatches(blob).matches
    /\ (pc = "failed" /\ err \in {"compile", "read"} /\ scanIdx < Len(argPaths)) =>
           /\ fs = orig
           /\ ioLog = <<>>
           /\ blob = <<>>
           /\ edit = ""

\* a run over two paths with matches in both, one body edited, both files
\* rewritten, one of them changed
C7_Witness ==
    /\ pc = "done"
    /\ Len(argPaths) = 2
    /\ edit = "body"
    /\ Written("f") /\ Written("g")
    /\ fs # orig

====
